---------------------------- MODULE Spec2Model ----------------------------
(***************************************************************************)
(* The key-value service: the gRPC KeyValueServer (Get/Set/Delete/Health)  *)
(* on top of a kvstore.Storer.  The Storer is either the InMemoryStore (a  *)
(* map guarded by one sync.RWMutex) or the MockStorer of the server tests  *)
(* (three optional functions).  Several callers issue requests             *)
(* concurrently; every blocking point and every statement that touches     *)
(* shared state is a step of its own.                                      *)
(* The API gateway in front of it: the HTTP handlers GetValueByKey,        *)
(* UpdateValue and DeleteValue over a KVStoreInterface, and KVStoreClient  *)
(* over the generated gRPC stub, each over the mock of its tests, and the   *)
(* router with its x-api-key middleware in front of the handlers, the      *)
(* client, the server and the InMemoryStore put together.                  *)
(***************************************************************************)
EXTENDS Naturals, Sequences, FiniteSets, TLC

\* ------------------------------------------------------------------ bounds
NumProcs == 2
MaxCalls == 3
HistLen == 3

Procs == 1..NumProcs
Keys == {"", "a", "b"}
StoreKeys == {"", "a"}
Vals == {"", "x"}
Timestamps == {"t0", "t1"}
None == 0

VARIABLES
    impl,       \* which Storer the server was built with
    store,      \* InMemoryStore.store: the map (a function on the present keys)
    mutex,      \* InMemoryStore.mutex: the sync.RWMutex
    pc,         \* per caller: where its request is
    req,        \* per caller: the request it issued
    invoked,    \* per caller: whether the request has called into the Storer
    storeRes,   \* per caller: what the Storer call returned (value, err)
    result,     \* per caller: what the server method returned (resp, err)
    calls,      \* requests issued so far
    log,        \* history: per key, the last HistLen writes applied to the map
    lastLock,   \* history: per key, the last Set that acquired the write lock
    setDone,    \* history: keys for which some InMemoryStore.Set has returned
    obs,        \* history: per caller, log[key] when its Get read the map
    afterFailedSet, \* history: per caller, its Get was issued after a failed Set
                    \* of the same key had returned
    started,    \* history: per caller, log[key] when its Get was issued
    hpc,        \* per caller of the API gateway: where its HTTP request or client call is
    hreq,       \* per caller: the HTTP request (or the direct client call) it issued
    rpc,        \* per caller: what the gRPC stub returned to KVStoreClient (resp, err)
    cres,       \* per caller: what the kvstoreClient method returned to its caller
    hres,       \* per caller: the HTTP response the handler wrote
    clientCalls,\* per caller: calls of kvstoreClient made for the current request
    config,     \* the api-gateway's config.Config (APIKey, Environment)
    header      \* per caller: the x-api-key header of the HTTP request it sent

\* The state of the key-value service and the state of the API gateway.
kvVars == <<impl, store, mutex, pc, req, invoked, storeRes, result, calls,
            log, lastLock, setDone, obs, afterFailedSet, started>>
routerVars == <<config, header>>
httpVars == <<hpc, hreq, rpc, cres, hres, clientCalls, routerVars>>
vars == <<kvVars, httpVars>>

\* ------------------------------------------------------------ Go values
\* An error value: nil, or errors.New(msg).
NoError == [isNil |-> TRUE, msg |-> ""]
NewError(m) == [isNil |-> FALSE, msg |-> m]

\* A gRPC status error: nil, or status.Errorf(code, format, args).
NilStatus == [code |-> "nil", msg |-> <<>>]
Errorf(code, m) == [code |-> code, msg |-> m]

NilResp == [kind |-> "nil"]
GetResponse(v, f, e) == [kind |-> "GetResponse", Value |-> v, Found |-> f, Error |-> e]
SetResponse(s, e) == [kind |-> "SetResponse", Success |-> s, Error |-> e]
DeleteResponse(s, e) == [kind |-> "DeleteResponse", Success |-> s, Error |-> e]
\* Mutant: the status token reports the service unhealthy.
HealthResponseUnhealthy(s, t) == [kind |-> "HealthResponse", Status |-> "unhealthy", Timestamp |-> t]
HealthResponse(s, t) == [kind |-> "HealthResponse", Status |-> s, Timestamp |-> t]

NoReq == [via |-> "none", op |-> "none", key |-> "", value |-> ""]
NoHttpReq == [via |-> "none", op |-> "none", key |-> "", value |-> "", bodyOk |-> TRUE]
NoClientRes == [value |-> "", found |-> FALSE, err |-> [isNil |-> TRUE, msg |-> <<>>]]
NoHttpRes == [status |-> 0, body |-> [kind |-> "none"]]
\* No request has come in through the router.
NoHeader == [arrived |-> FALSE, present |-> FALSE, value |-> ""]
NoStoreRes == [value |-> "", err |-> NoError]
NoResult == [resp |-> NilResp, err |-> NilStatus]

\* --------------------------------------------------------- the Go map
EmptyMap == [k \in {} |-> ""]
\* Mutant: an entry with the empty value is taken to be absent.
MapHasNonEmpty(m, k) == k \in DOMAIN m /\ m[k] # ""
\* Mutant: every key is taken to be present.
MapHasAlways(m, k) == TRUE
MapHas(m, k) == k \in DOMAIN m
\* Mutant: the read returns the zero value.
MapGetZero(m, k) == ""
MapGet(m, k) == IF k \in DOMAIN m THEN m[k] ELSE ""
\* Mutant: an insert under the empty key is dropped.
MapSetNonEmptyKey(m, k, v) == IF k = "" THEN m ELSE [j \in (DOMAIN m) \cup {k} |-> IF j = k THEN v ELSE m[j]]
\* Mutant: an insert that does not overwrite an existing entry.
MapSetIfAbsent(m, k, v) == [j \in (DOMAIN m) \cup {k} |-> IF j \in DOMAIN m THEN m[j] ELSE v]
MapSet(m, k, v) == [j \in (DOMAIN m) \cup {k} |-> IF j = k THEN v ELSE m[j]]
\* Mutant: the delete leaves the entry in place.
MapDeleteKeep(m, k) == m
\* Mutant: the delete drops every entry.
MapDeleteClear(m, k) == [j \in {} |-> ""]
MapDelete(m, k) == [j \in (DOMAIN m) \ {k} |-> m[j]]

\* ------------------------------------------------------ sync.RWMutex
\* pending: the writer that has called Lock and waits for the readers to leave;
\* writer: the writer holding the lock; readers: the callers holding a read lock.
FreeMutex == [pending |-> None, writer |-> None, readers |-> {}]
\* Mutant: a reader that does not wait for the writer holding the lock.
CanRLockDespiteWriter(m) == m.pending = None
\* Mutant: a reader also waits for the other readers.
CanRLockExclusive(m) == m.writer = None /\ m.pending = None /\ m.readers = {}
CanRLock(m) == m.writer = None /\ m.pending = None
CanLockAnnounce(m) == m.writer = None /\ m.pending = None
\* Mutant: the waiting writer is never granted the lock.
CanLockAcquireNever(m, p) == m.pending = p /\ m.readers = {} /\ m.writer # None
\* Mutant: the writer does not wait for the readers to leave.
CanLockAcquireDespiteReaders(m, p) == m.pending = p
CanLockAcquire(m, p) == m.pending = p /\ m.readers = {}

\* ------------------------------------------------------------- MockStorer
MockGetFuncs == {"nil", "notfound", "failed"}
MockSetFuncs == {"nil", "failed", "unavailable", "silent"}
MockDeleteFuncs == {"nil", "failed", "unavailable", "silent"}
InMemory == [kind |-> "InMemoryStore", GetFunc |-> "nil", SetFunc |-> "nil", DeleteFunc |-> "nil"]
Mocks == [kind : {"MockStorer"}, GetFunc : MockGetFuncs, SetFunc : MockSetFuncs,
          DeleteFunc : MockDeleteFuncs]

\* Storers that report the absence of a key in three different wordings.
MockAbsenceFuncs == {"notfound", "norows", "capital"}
AbsenceMocks == [kind : {"MockStorer"}, GetFunc : MockAbsenceFuncs, SetFunc : {"nil"},
                 DeleteFunc : {"nil"}]

MockGetResult(f) ==
    CASE f = "nil" -> [value |-> "mock-value", err |-> NoError]
      [] f = "notfound" -> [value |-> "", err |-> NewError("key not found")]
      [] f = "norows" -> [value |-> "", err |-> NewError("sql: no rows in result set")]
      [] f = "capital" -> [value |-> "", err |-> NewError("Key not found")]
      [] OTHER -> [value |-> "", err |-> NewError("connection failed")]
MockSetResult(f) ==
    CASE f = "nil" -> [value |-> "", err |-> NoError]
      [] f = "failed" -> [value |-> "", err |-> NewError("storage failed")]
      [] f = "silent" -> [value |-> "", err |-> NewError("")]
      [] OTHER -> [value |-> "", err |-> NewError("connection failed")]
MockDeleteResult(f) ==
    CASE f = "nil" -> [value |-> "", err |-> NoError]
      [] f = "failed" -> [value |-> "", err |-> NewError("delete failed")]
      [] f = "silent" -> [value |-> "", err |-> NewError("")]
      [] OTHER -> [value |-> "", err |-> NewError("connection failed")]

\* ------------------------------------------------ the server's mapping
\* Mutant: no validation of the key.
ValidKeyAny(k) == TRUE
ValidKey(k) == k # ""
InvalidKeyResult == [resp |-> NilResp, err |-> Errorf("InvalidArgument", <<"key cannot be empty">>)]

\* Mutant: absence is reported like any other Storer error.
GetOutcomeAbsenceIsError(r) ==
    IF ~r.err.isNil
    THEN [resp |-> NilResp,
          err |-> Errorf("Internal", <<"service failed to get value: ", r.err.msg>>)]
    ELSE [resp |-> GetResponse(r.value, TRUE, ""), err |-> NilStatus]
\* Mutant: every Storer error is reported as absence.
GetOutcomeAnyErrorNotFound(r) ==
    IF ~r.err.isNil
    THEN [resp |-> GetResponse("", FALSE, ""), err |-> NilStatus]
    ELSE [resp |-> GetResponse(r.value, TRUE, ""), err |-> NilStatus]
\* Mutant: the comparison of the message ignores the case of its first letter.
GetOutcomeIgnoreCase(r) ==
    IF ~r.err.isNil
    THEN IF r.err.msg \in {"key not found", "Key not found"}
         THEN [resp |-> GetResponse("", FALSE, ""), err |-> NilStatus]
         ELSE [resp |-> NilResp,
               err |-> Errorf("Internal", <<"service failed to get value: ", r.err.msg>>)]
    ELSE [resp |-> GetResponse(r.value, TRUE, ""), err |-> NilStatus]
GetOutcome(r) ==
    IF ~r.err.isNil
    THEN IF r.err.msg = "key not found"
         THEN [resp |-> GetResponse("", FALSE, ""), err |-> NilStatus]
         ELSE [resp |-> NilResp,
               err |-> Errorf("Internal", <<"service failed to get value: ", r.err.msg>>)]
    ELSE [resp |-> GetResponse(r.value, TRUE, ""), err |-> NilStatus]

\* Mutant: a Storer error becomes a transport error.
SetOutcomeTransportError(r) ==
    IF ~r.err.isNil
    THEN [resp |-> NilResp,
          err |-> Errorf("Internal", <<"service failed to set value: ", r.err.msg>>)]
    ELSE [resp |-> SetResponse(TRUE, ""), err |-> NilStatus]
\* Mutant: the test of the Storer error is inverted.
SetOutcomeInverted(r) ==
    IF r.err.isNil
    THEN [resp |-> SetResponse(FALSE, r.err.msg), err |-> NilStatus]
    ELSE [resp |-> SetResponse(TRUE, ""), err |-> NilStatus]
\* Mutant: the failure message is dropped.
SetOutcomeNoMessage(r) ==
    IF ~r.err.isNil
    THEN [resp |-> SetResponse(FALSE, ""), err |-> NilStatus]
    ELSE [resp |-> SetResponse(TRUE, ""), err |-> NilStatus]
SetOutcome(r) ==
    IF ~r.err.isNil
    THEN [resp |-> SetResponse(FALSE, r.err.msg), err |-> NilStatus]
    ELSE [resp |-> SetResponse(TRUE, ""), err |-> NilStatus]

\* Mutant: a Storer error is reported with success=true.
DeleteOutcomeSuccessOnError(r) ==
    IF ~r.err.isNil
    THEN [resp |-> DeleteResponse(TRUE, r.err.msg), err |-> NilStatus]
    ELSE [resp |-> DeleteResponse(TRUE, ""), err |-> NilStatus]
\* Mutant: a Storer error becomes a transport error.
DeleteOutcomeTransportError(r) ==
    IF ~r.err.isNil
    THEN [resp |-> NilResp,
          err |-> Errorf("Internal", <<"service failed to delete value: ", r.err.msg>>)]
    ELSE [resp |-> DeleteResponse(TRUE, ""), err |-> NilStatus]
DeleteOutcome(r) ==
    IF ~r.err.isNil
    THEN [resp |-> DeleteResponse(FALSE, r.err.msg), err |-> NilStatus]
    ELSE [resp |-> DeleteResponse(TRUE, ""), err |-> NilStatus]

\* ---------------------------------------------------------------- history
Push(s, e) == IF Len(s) < HistLen THEN Append(s, e) ELSE Append(Tail(s), e)
SetEvent(v) == [op |-> "Set", value |-> v]
DeleteEvent == [op |-> "Delete", value |-> ""]
NoLock == [proc |-> None, value |-> ""]

\* ------------------------------------------------------------------- Init
Start(impls) ==
    /\ impl \in impls
    /\ store = EmptyMap
    /\ mutex = FreeMutex
    /\ pc = [p \in Procs |-> "idle"]
    /\ req = [p \in Procs |-> NoReq]
    /\ invoked = [p \in Procs |-> FALSE]
    /\ storeRes = [p \in Procs |-> NoStoreRes]
    /\ result = [p \in Procs |-> NoResult]
    /\ calls = 0
    /\ log = [k \in Keys |-> <<>>]
    /\ lastLock = [k \in Keys |-> NoLock]
    /\ setDone = {}
    /\ obs = [p \in Procs |-> <<>>]
    /\ afterFailedSet = [p \in Procs |-> FALSE]
    /\ started = [p \in Procs |-> <<>>]
    /\ hpc = [p \in Procs |-> "idle"]
    /\ hreq = [p \in Procs |-> NoHttpReq]
    /\ rpc = [p \in Procs |-> NoResult]
    /\ cres = [p \in Procs |-> NoClientRes]
    /\ hres = [p \in Procs |-> NoHttpRes]
    /\ clientCalls = [p \in Procs |-> 0]
    /\ header = [p \in Procs |-> NoHeader]

\* config.Load(): API_KEY and ENVIRONMENT as the README's Quick Start sets them.
QuickStartConfig == [APIKey |-> "my-secret-key", Environment |-> "dev"]
\* config.Load() reads API_KEY with os.Getenv: the empty string when it is unset.
Configs == {[APIKey |-> k, Environment |-> "dev"] : k \in {"", "my-secret-key"}}

\* main.go: the server over kvstore.NewInMemoryStore().
Init == Start({InMemory}) /\ config = QuickStartConfig
\* The server tests: the server over a MockStorer.
InitMock == Start(Mocks) /\ config = QuickStartConfig
\* The server over a Storer that reports absence in its own wording.
InitAbsence == Start(AbsenceMocks) /\ config = QuickStartConfig
\* Both services, the gateway configured with or without an API key.
InitGateway == Start({InMemory}) /\ config \in Configs

\* A Set of key k that has returned to its caller with success=false.
FailedSetReturned(k) ==
    \E q \in Procs : /\ pc[q] = "done" /\ req[q].op = "Set" /\ req[q].key = k
                     /\ result[q].resp.kind = "SetResponse" /\ ~result[q].resp.Success

\* ------------------------------------------------------ server: entry
\* A caller issues a request; the server validates the key and, for a valid
\* key, goes on to call the Storer.
Enter(p, r) ==
    /\ pc[p] = "idle"
    /\ calls < MaxCalls
    /\ calls' = calls + 1
    /\ req' = [req EXCEPT ![p] = r]
    /\ afterFailedSet' = [afterFailedSet EXCEPT ![p] = r.op = "Get" /\ FailedSetReturned(r.key)]
    /\ started' = [started EXCEPT ![p] = IF r.op = "Get" THEN log[r.key] ELSE <<>>]
    /\ IF ValidKey(r.key)
       THEN /\ pc' = [pc EXCEPT ![p] = "call"]
            /\ UNCHANGED result
       ELSE /\ pc' = [pc EXCEPT ![p] = "done"]
            /\ result' = [result EXCEPT ![p] = InvalidKeyResult]
    /\ UNCHANGED <<impl, store, mutex, invoked, storeRes, log, lastLock, setDone, obs, httpVars>>

\* A caller of the kvstore package calls the Store itself (as the store tests
\* do): no validation stands before the Store.
StoreCall(p, r) ==
    /\ pc[p] = "idle"
    /\ calls < MaxCalls
    /\ calls' = calls + 1
    /\ req' = [req EXCEPT ![p] = r]
    /\ started' = [started EXCEPT ![p] = IF r.op = "Get" THEN log[r.key] ELSE <<>>]
    /\ pc' = [pc EXCEPT ![p] = "call"]
    /\ UNCHANGED <<impl, store, mutex, invoked, storeRes, result, log, lastLock, setDone, obs,
                   afterFailedSet, httpVars>>

StoreGet(p) == \E k \in StoreKeys : StoreCall(p, [via |-> "store", op |-> "Get", key |-> k, value |-> ""])
StoreSet(p) == \E k \in StoreKeys, v \in Vals :
                   StoreCall(p, [via |-> "store", op |-> "Set", key |-> k, value |-> v])
StoreDelete(p) == \E k \in StoreKeys :
                      StoreCall(p, [via |-> "store", op |-> "Delete", key |-> k, value |-> ""])

\* The Store's method has returned (value, err) to the caller of the package.
StoreReturn(p) ==
    /\ pc[p] = "ret"
    /\ req[p].via = "store"
    /\ pc' = [pc EXCEPT ![p] = "done"]
    /\ UNCHANGED <<impl, store, mutex, req, invoked, storeRes, result, calls, log, lastLock,
                   setDone, obs, afterFailedSet, started, httpVars>>

Get(p) == \E k \in Keys : Enter(p, [via |-> "server", op |-> "Get", key |-> k, value |-> ""])
Set(p) == \E k \in Keys, v \in Vals :
              Enter(p, [via |-> "server", op |-> "Set", key |-> k, value |-> v])
Delete(p) == \E k \in Keys : Enter(p, [via |-> "server", op |-> "Delete", key |-> k, value |-> ""])

Health(p) ==
    /\ pc[p] = "idle"
    /\ calls < MaxCalls
    /\ calls' = calls + 1
    /\ req' = [req EXCEPT ![p] = [via |-> "server", op |-> "Health", key |-> "", value |-> ""]]
    /\ pc' = [pc EXCEPT ![p] = "done"]
    /\ \E t \in Timestamps :
         result' = [result EXCEPT ![p] = [resp |-> HealthResponse("healthy", t), err |-> NilStatus]]
    /\ UNCHANGED <<impl, store, mutex, invoked, storeRes, log, lastLock, setDone, obs, afterFailedSet, started, httpVars>>

\* ------------------------------------------------- InMemoryStore.Get
RLock(p) ==
    /\ pc[p] = "call"
    /\ impl.kind = "InMemoryStore"
    /\ req[p].op = "Get"
    /\ CanRLock(mutex)
    /\ mutex' = [mutex EXCEPT !.readers = @ \cup {p}]
    /\ invoked' = [invoked EXCEPT ![p] = TRUE]
    /\ pc' = [pc EXCEPT ![p] = "get_check"]
    /\ UNCHANGED <<impl, store, req, storeRes, result, calls, log, lastLock, setDone, obs, afterFailedSet, started, httpVars>>

\* if _, ok := s.store[key]; !ok { return "", errors.New("key not found") }
GetCheck(p) ==
    /\ pc[p] = "get_check"
    /\ obs' = [obs EXCEPT ![p] = log[req[p].key]]
    /\ IF MapHas(store, req[p].key)
       THEN /\ pc' = [pc EXCEPT ![p] = "get_read"]
            /\ UNCHANGED storeRes
       ELSE /\ pc' = [pc EXCEPT ![p] = "runlock"]
            /\ storeRes' = [storeRes EXCEPT ![p] =
                              [value |-> "", err |-> NewError("key not found")]]
    /\ UNCHANGED <<impl, store, mutex, req, invoked, result, calls, log, lastLock, setDone, afterFailedSet, started, httpVars>>

\* return s.store[key], nil
GetRead(p) ==
    /\ pc[p] = "get_read"
    /\ storeRes' = [storeRes EXCEPT ![p] = [value |-> MapGet(store, req[p].key), err |-> NoError]]
    /\ pc' = [pc EXCEPT ![p] = "runlock"]
    /\ UNCHANGED <<impl, store, mutex, req, invoked, result, calls, log, lastLock, setDone, obs, afterFailedSet, started, httpVars>>

\* Mutant: the return on the not-found path leaves without releasing the read lock.
RUnlockLeak(p) ==
    /\ pc[p] = "runlock"
    /\ mutex' = IF storeRes[p].err.isNil THEN [mutex EXCEPT !.readers = @ \ {p}] ELSE mutex
    /\ pc' = [pc EXCEPT ![p] = "ret"]
    /\ UNCHANGED <<impl, store, req, invoked, storeRes, result, calls, log, lastLock, setDone, obs, afterFailedSet, started, httpVars>>
\* defer s.mutex.RUnlock()
RUnlock(p) ==
    /\ pc[p] = "runlock"
    /\ mutex' = [mutex EXCEPT !.readers = @ \ {p}]
    /\ pc' = [pc EXCEPT ![p] = "ret"]
    /\ UNCHANGED <<impl, store, req, invoked, storeRes, result, calls, log, lastLock, setDone, obs, afterFailedSet, started, httpVars>>

\* ------------------------------------------ InMemoryStore.Set and Delete
\* s.mutex.Lock(), first half: the writer announces itself; no new reader enters.
LockAnnounce(p) ==
    /\ pc[p] = "call"
    /\ impl.kind = "InMemoryStore"
    /\ req[p].op \in {"Set", "Delete"}
    /\ CanLockAnnounce(mutex)
    /\ mutex' = [mutex EXCEPT !.pending = p]
    /\ invoked' = [invoked EXCEPT ![p] = TRUE]
    /\ pc' = [pc EXCEPT ![p] = "lock_wait"]
    /\ UNCHANGED <<impl, store, req, storeRes, result, calls, log, lastLock, setDone, obs, afterFailedSet, started, httpVars>>

\* s.mutex.Lock(), second half: the readers have left, the writer holds the lock.
LockAcquire(p) ==
    /\ pc[p] = "lock_wait"
    /\ CanLockAcquire(mutex, p)
    /\ mutex' = [mutex EXCEPT !.pending = None, !.writer = p]
    /\ pc' = [pc EXCEPT ![p] = IF req[p].op = "Set" THEN "set_write" ELSE "delete_write"]
    /\ lastLock' = IF req[p].op = "Set"
                   THEN [lastLock EXCEPT ![req[p].key] = [proc |-> p, value |-> req[p].value]]
                   ELSE lastLock
    /\ UNCHANGED <<impl, store, req, invoked, storeRes, result, calls, log, setDone, obs, afterFailedSet, started, httpVars>>

\* s.store[key] = value; return nil
SetWrite(p) ==
    /\ pc[p] = "set_write"
    /\ store' = MapSet(store, req[p].key, req[p].value)
    /\ log' = [log EXCEPT ![req[p].key] = Push(@, SetEvent(req[p].value))]
    /\ storeRes' = [storeRes EXCEPT ![p] = [value |-> "", err |-> NoError]]
    /\ pc' = [pc EXCEPT ![p] = "unlock"]
    /\ UNCHANGED <<impl, mutex, req, invoked, result, calls, lastLock, setDone, obs, afterFailedSet, started, httpVars>>

\* delete(s.store, key); return nil
DeleteWrite(p) ==
    /\ pc[p] = "delete_write"
    /\ store' = MapDelete(store, req[p].key)
    /\ log' = [log EXCEPT ![req[p].key] = Push(@, DeleteEvent)]
    /\ storeRes' = [storeRes EXCEPT ![p] = [value |-> "", err |-> NoError]]
    /\ pc' = [pc EXCEPT ![p] = "unlock"]
    /\ UNCHANGED <<impl, mutex, req, invoked, result, calls, lastLock, setDone, obs, afterFailedSet, started, httpVars>>

\* defer s.mutex.Unlock()
Unlock(p) ==
    /\ pc[p] = "unlock"
    /\ mutex' = [mutex EXCEPT !.writer = None]
    /\ setDone' = IF req[p].op = "Set" THEN setDone \cup {req[p].key} ELSE setDone
    /\ pc' = [pc EXCEPT ![p] = "ret"]
    /\ UNCHANGED <<impl, store, req, invoked, storeRes, result, calls, log, lastLock, obs, afterFailedSet, started, httpVars>>

\* ------------------------------------------------------------- MockStorer
MockCall(p, op, res) ==
    /\ pc[p] = "call"
    /\ impl.kind = "MockStorer"
    /\ req[p].op = op
    /\ storeRes' = [storeRes EXCEPT ![p] = res]
    /\ invoked' = [invoked EXCEPT ![p] = TRUE]
    /\ pc' = [pc EXCEPT ![p] = "ret"]
    /\ UNCHANGED <<impl, store, mutex, req, result, calls, log, lastLock, setDone, obs, afterFailedSet, started, httpVars>>

MockGet(p) == MockCall(p, "Get", MockGetResult(impl.GetFunc))
MockSet(p) == MockCall(p, "Set", MockSetResult(impl.SetFunc))
MockDelete(p) == MockCall(p, "Delete", MockDeleteResult(impl.DeleteFunc))

\* ----------------------------------------------------- server: return
Return(p, op, out) ==
    /\ pc[p] = "ret"
    /\ req[p].via = "server"
    /\ req[p].op = op
    /\ result' = [result EXCEPT ![p] = out]
    /\ pc' = [pc EXCEPT ![p] = "done"]
    /\ UNCHANGED <<impl, store, mutex, req, invoked, storeRes, calls, log, lastLock, setDone, obs, afterFailedSet, started, httpVars>>

GetReturn(p) == Return(p, "Get", GetOutcome(storeRes[p]))
SetReturn(p) == Return(p, "Set", SetOutcome(storeRes[p]))
DeleteReturn(p) == Return(p, "Delete", DeleteOutcome(storeRes[p]))

\* The caller has its answer and is free to issue another request.
Reset(p) ==
    /\ pc[p] = "done"
    /\ pc' = [pc EXCEPT ![p] = "idle"]
    /\ req' = [req EXCEPT ![p] = NoReq]
    /\ invoked' = [invoked EXCEPT ![p] = FALSE]
    /\ storeRes' = [storeRes EXCEPT ![p] = NoStoreRes]
    /\ result' = [result EXCEPT ![p] = NoResult]
    /\ obs' = [obs EXCEPT ![p] = <<>>]
    /\ afterFailedSet' = [afterFailedSet EXCEPT ![p] = FALSE]
    /\ started' = [started EXCEPT ![p] = <<>>]
    /\ UNCHANGED <<impl, store, mutex, calls, log, lastLock, setDone, httpVars>>

Next ==
    \E p \in Procs :
        \/ Get(p) \/ Set(p) \/ Delete(p) \/ Health(p)
        \/ RLock(p) \/ GetCheck(p) \/ GetRead(p) \/ RUnlock(p)
        \/ LockAnnounce(p) \/ LockAcquire(p) \/ SetWrite(p) \/ DeleteWrite(p) \/ Unlock(p)
        \/ GetReturn(p) \/ SetReturn(p) \/ DeleteReturn(p)
        \/ Reset(p)

NextMock ==
    \E p \in Procs :
        \/ Get(p) \/ Set(p) \/ Delete(p) \/ Health(p)
        \/ MockGet(p) \/ MockSet(p) \/ MockDelete(p)
        \/ GetReturn(p) \/ SetReturn(p) \/ DeleteReturn(p)
        \/ Reset(p)

\* The steps inside the InMemoryStore's methods.
StoreStep(p) ==
    \/ RLock(p) \/ GetCheck(p) \/ GetRead(p) \/ RUnlock(p)
    \/ LockAnnounce(p) \/ LockAcquire(p) \/ SetWrite(p) \/ DeleteWrite(p) \/ Unlock(p)

NextStore ==
    \E p \in Procs :
        \/ StoreGet(p) \/ StoreSet(p) \/ StoreDelete(p)
        \/ StoreStep(p)
        \/ StoreReturn(p)
        \/ Reset(p)

NextBoth ==
    \E p \in Procs :
        \/ Get(p) \/ Set(p) \/ Delete(p) \/ Health(p)
        \/ StoreGet(p) \/ StoreSet(p) \/ StoreDelete(p)
        \/ StoreStep(p)
        \/ GetReturn(p) \/ SetReturn(p) \/ DeleteReturn(p)
        \/ StoreReturn(p)
        \/ Reset(p)

\* The InMemoryStore called directly.
SpecStore == Init /\ [][NextStore]_vars
\* The InMemoryStore called both through the server and directly.
SpecBoth == Init /\ [][NextBoth]_vars
\* ===================================================== the API gateway
\* net/http status codes.
StatusOK == 200
StatusNoContent == 204
StatusBadRequest == 400
StatusUnauthorized == 401
StatusNotFound == 404
StatusInternalServerError == 500

\* The keys of HTTP requests and of direct client calls.
HttpKeys == {"", "a"}

\* A Go error of the gateway: nil, or fmt.Errorf / errors.New with its text as
\* the sequence of its parts.
NilErr == [isNil |-> TRUE, msg |-> <<>>]
FmtErrorf(m) == [isNil |-> FALSE, msg |-> m]
ClientRes(v, f, e) == [value |-> v, found |-> f, err |-> e]

\* c.JSON(status, body) and c.NoContent(status).
KeyValue(k, v) == [kind |-> "KeyValue", Key |-> k, Value |-> v]
ErrorResponse(e) == [kind |-> "ErrorResponse", Error |-> e]
JSON(status, body) == [status |-> status, body |-> body]
NoContent(status) == [status |-> status, body |-> [kind |-> "none"]]

\* ------------------------------------------------ MockKVStoreClient
\* What the GetFunc, SetFunc and DeleteFunc of the handler tests may return.
MockClientGetResults ==
    {ClientRes(v, f, e) : v \in Vals, f \in BOOLEAN,
                          e \in {NilErr, FmtErrorf(<<"connection failed">>)}}
MockClientSetResults == {ClientRes("", FALSE, e) : e \in {NilErr, FmtErrorf(<<"connection failed">>)}}
MockClientDeleteResults == {ClientRes("", FALSE, e) : e \in {NilErr, FmtErrorf(<<"connection failed">>)}}

\* ------------------------------------------------------- the handlers
\* Mutant: GetValueByKey looks at the found flag before the error.
GetValueByKeyFoundFirst(key, r) ==
    IF ~r.found
    THEN JSON(StatusNotFound, ErrorResponse(<<"Key not found">>))
    ELSE IF ~r.err.isNil
         THEN JSON(StatusInternalServerError, ErrorResponse(<<"Failed to get value">>))
         ELSE JSON(StatusOK, KeyValue(key, r.value))
\* GetValueByKey, after h.kvstoreClient.Get returned r.
GetValueByKeyOutcome(key, r) ==
    IF ~r.err.isNil
    THEN JSON(StatusInternalServerError, ErrorResponse(<<"Failed to get value">>))
    ELSE IF ~r.found
         THEN JSON(StatusNotFound, ErrorResponse(<<"Key not found">>))
         ELSE JSON(StatusOK, KeyValue(key, r.value))

\* Mutant: UpdateValue answers 200 whatever the client returned.
UpdateValueAlwaysOK(key, value, r) == JSON(StatusOK, KeyValue(key, value))
\* UpdateValue, after h.kvstoreClient.Set returned r.err.
UpdateValueOutcome(key, value, r) ==
    IF ~r.err.isNil
    THEN JSON(StatusInternalServerError,
              ErrorResponse(<<"Failed to update value ">> \o r.err.msg))
    ELSE JSON(StatusOK, KeyValue(key, value))

\* DeleteValue, after h.kvstoreClient.Delete returned r.err.
DeleteValueOutcome(r) ==
    IF ~r.err.isNil
    THEN JSON(StatusInternalServerError, ErrorResponse(<<"Failed to delete value">>))
    ELSE NoContent(StatusNoContent)

\* Mutant: the handler does not look at the key.
KeyMissingNever(k) == FALSE
\* if keyValue.Key == "" / if key == ""
KeyMissing(k) == k = ""

HttpReq(op, k, v, ok) == [via |-> "http", op |-> op, key |-> k, value |-> v, bodyOk |-> ok]

\* The handler returns without calling the client.
Respond(p, r, res) ==
    /\ hpc[p] = "idle"
    /\ hreq' = [hreq EXCEPT ![p] = r]
    /\ hres' = [hres EXCEPT ![p] = res]
    /\ hpc' = [hpc EXCEPT ![p] = "responded"]
    /\ UNCHANGED <<kvVars, rpc, cres, clientCalls, routerVars>>

\* The handler calls a method of h.kvstoreClient.
CallClient(p, r) ==
    /\ hpc[p] = "idle"
    /\ hreq' = [hreq EXCEPT ![p] = r]
    /\ clientCalls' = [clientCalls EXCEPT ![p] = @ + 1]
    /\ hpc' = [hpc EXCEPT ![p] = "client"]
    /\ UNCHANGED <<kvVars, rpc, cres, hres, routerVars>>

\* GET /v1/values/:key
GetValueByKey(p) ==
    \E k \in HttpKeys : CallClient(p, HttpReq("GetValueByKey", k, "", TRUE))

\* PUT /v1/values: the body binds to a models.KeyValue or does not.
UpdateValue(p) ==
    \/ Respond(p, HttpReq("UpdateValue", "", "", FALSE),
               JSON(StatusBadRequest, ErrorResponse(<<"Invalid request body">>)))
    \/ \E k \in HttpKeys, v \in Vals :
          IF KeyMissing(k)
          THEN Respond(p, HttpReq("UpdateValue", k, v, TRUE),
                       JSON(StatusBadRequest, ErrorResponse(<<"Key is required">>)))
          ELSE CallClient(p, HttpReq("UpdateValue", k, v, TRUE))

\* DELETE /v1/values/:key
DeleteValue(p) ==
    \E k \in HttpKeys :
        IF KeyMissing(k)
        THEN Respond(p, HttpReq("DeleteValue", k, "", TRUE),
                     JSON(StatusBadRequest, ErrorResponse(<<"Key is required">>)))
        ELSE CallClient(p, HttpReq("DeleteValue", k, "", TRUE))

\* The MockKVStoreClient of the handler tests returns.
MockClientReturn(p) ==
    /\ hpc[p] = "client"
    /\ hreq[p].via = "http"
    /\ \E r \in CASE hreq[p].op = "GetValueByKey" -> MockClientGetResults
                  [] hreq[p].op = "UpdateValue" -> MockClientSetResults
                  [] OTHER -> MockClientDeleteResults :
          cres' = [cres EXCEPT ![p] = r]
    /\ hpc' = [hpc EXCEPT ![p] = "client_done"]
    /\ UNCHANGED <<kvVars, hreq, rpc, hres, clientCalls, routerVars>>

\* The handler maps what the client returned to the HTTP response.
HandlerRespond(p) ==
    /\ hpc[p] = "client_done"
    /\ hreq[p].via = "http"
    /\ hres' = [hres EXCEPT ![p] =
                  CASE hreq[p].op = "GetValueByKey" -> GetValueByKeyOutcome(hreq[p].key, cres[p])
                    [] hreq[p].op = "UpdateValue" ->
                         UpdateValueOutcome(hreq[p].key, hreq[p].value, cres[p])
                    [] OTHER -> DeleteValueOutcome(cres[p])]
    /\ hpc' = [hpc EXCEPT ![p] = "responded"]
    /\ UNCHANGED <<kvVars, hreq, rpc, cres, clientCalls, routerVars>>

\* The response is written; the caller may issue its next request.
HttpReset(p) ==
    /\ \/ hpc[p] = "responded"
       \/ hpc[p] = "client_done" /\ hreq[p].via = "client"
    /\ hpc' = [hpc EXCEPT ![p] = "idle"]
    /\ hreq' = [hreq EXCEPT ![p] = NoHttpReq]
    /\ rpc' = [rpc EXCEPT ![p] = NoResult]
    /\ cres' = [cres EXCEPT ![p] = NoClientRes]
    /\ hres' = [hres EXCEPT ![p] = NoHttpRes]
    /\ clientCalls' = [clientCalls EXCEPT ![p] = 0]
    /\ header' = [header EXCEPT ![p] = NoHeader]
    /\ UNCHANGED <<kvVars, config>>

\* ------------------------------------------- MockKeyValueServiceClient
\* What the gRPC stub of the client tests may return: a response, or a status
\* error (with or without a response beside it).
RpcError == Errorf("Internal", <<"service unavailable">>)
RpcOk(resp) == [resp |-> resp, err |-> NilStatus]
RpcFailed == [resp |-> NilResp, err |-> RpcError]
MockRpcGetResults ==
    {RpcOk(GetResponse(v, f, "")) : v \in Vals, f \in BOOLEAN}
    \cup {RpcFailed, [resp |-> GetResponse("x", TRUE, ""), err |-> RpcError]}
MockRpcSetResults ==
    {RpcOk(SetResponse(TRUE, "")), RpcOk(SetResponse(FALSE, "storage failed")),
     RpcOk(SetResponse(FALSE, "")), RpcFailed,
     [resp |-> SetResponse(TRUE, ""), err |-> RpcError]}
MockRpcDeleteResults ==
    {RpcOk(DeleteResponse(TRUE, "")), RpcOk(DeleteResponse(FALSE, "delete failed")),
     RpcOk(DeleteResponse(FALSE, "")), RpcFailed,
     [resp |-> DeleteResponse(TRUE, ""), err |-> RpcError]}
MockRpcHealthResults ==
    {RpcOk(HealthResponse(s, t)) : s \in {"healthy", "unhealthy"}, t \in Timestamps}
    \cup {RpcFailed}

\* ------------------------------------------------------- KVStoreClient
\* err.Error() of a gRPC status error.
StatusText(e) == <<"rpc error: code = ", e.code, " desc = ">> \o e.msg

\* KVStoreClient.Get, after c.client.Get returned r.
ClientGetOutcome(key, r) ==
    IF r.err # NilStatus
    THEN ClientRes("", FALSE, FmtErrorf(<<"failed to get key ", key, ": ">> \o StatusText(r.err)))
    ELSE ClientRes(r.resp.Value, r.resp.Found, NilErr)

\* Mutant: the client does not look at the success flag of the response.
ClientSetIgnoreSuccess(key, r) ==
    IF r.err # NilStatus
    THEN ClientRes("", FALSE, FmtErrorf(<<"failed to set key ", key, ": ">> \o StatusText(r.err)))
    ELSE ClientRes("", FALSE, NilErr)
\* KVStoreClient.Set, after c.client.Set returned r.
ClientSetOutcome(key, r) ==
    IF r.err # NilStatus
    THEN ClientRes("", FALSE, FmtErrorf(<<"failed to set key ", key, ": ">> \o StatusText(r.err)))
    ELSE IF ~r.resp.Success
         THEN ClientRes("", FALSE, FmtErrorf(<<"set operation failed: ", r.resp.Error>>))
         ELSE ClientRes("", FALSE, NilErr)

\* KVStoreClient.Delete, after c.client.Delete returned r.
ClientDeleteOutcome(key, r) ==
    IF r.err # NilStatus
    THEN ClientRes("", FALSE, FmtErrorf(<<"failed to delete key ", key, ": ">> \o StatusText(r.err)))
    ELSE IF ~r.resp.Success
         THEN ClientRes("", FALSE, FmtErrorf(<<"delete operation failed: ", r.resp.Error>>))
         ELSE ClientRes("", FALSE, NilErr)

\* Mutant: the client does not look at the status token.
ClientHealthIgnoreStatus(r) ==
    IF r.err # NilStatus
    THEN ClientRes("", FALSE, FmtErrorf(<<"health check failed: ">> \o StatusText(r.err)))
    ELSE ClientRes("", FALSE, NilErr)
\* KVStoreClient.Health, after c.client.Health returned r.
ClientHealthOutcome(r) ==
    IF r.err # NilStatus
    THEN ClientRes("", FALSE, FmtErrorf(<<"health check failed: ">> \o StatusText(r.err)))
    ELSE IF r.resp.Status # "healthy"
         THEN ClientRes("", FALSE, FmtErrorf(<<"service is not healthy: ", r.resp.Status>>))
         ELSE ClientRes("", FALSE, NilErr)

ClientReq(op, k, v) == [via |-> "client", op |-> op, key |-> k, value |-> v, bodyOk |-> TRUE]

\* A method of KVStoreClient is called: it builds the request and calls the stub.
ClientCall(p, r) ==
    /\ hpc[p] = "idle"
    /\ hreq' = [hreq EXCEPT ![p] = r]
    /\ clientCalls' = [clientCalls EXCEPT ![p] = @ + 1]
    /\ hpc' = [hpc EXCEPT ![p] = "rpc"]
    /\ UNCHANGED <<kvVars, rpc, cres, hres, routerVars>>

ClientGet(p) == \E k \in HttpKeys : ClientCall(p, ClientReq("Get", k, ""))
ClientSet(p) == \E k \in HttpKeys, v \in Vals : ClientCall(p, ClientReq("Set", k, v))
ClientDelete(p) == \E k \in HttpKeys : ClientCall(p, ClientReq("Delete", k, ""))
ClientHealth(p) == ClientCall(p, ClientReq("Health", "", ""))

\* The MockKeyValueServiceClient of the client tests returns.
MockRpcReturn(p) ==
    /\ hpc[p] = "rpc"
    /\ \E r \in CASE hreq[p].op = "Get" -> MockRpcGetResults
                  [] hreq[p].op = "Set" -> MockRpcSetResults
                  [] hreq[p].op = "Delete" -> MockRpcDeleteResults
                  [] OTHER -> MockRpcHealthResults :
          rpc' = [rpc EXCEPT ![p] = r]
    /\ hpc' = [hpc EXCEPT ![p] = "rpc_done"]
    /\ UNCHANGED <<kvVars, hreq, cres, hres, clientCalls, routerVars>>

\* The method of KVStoreClient maps what the stub returned and returns.
ClientReturn(p) ==
    /\ hpc[p] = "rpc_done"
    /\ cres' = [cres EXCEPT ![p] =
                  CASE hreq[p].op = "Get" -> ClientGetOutcome(hreq[p].key, rpc[p])
                    [] hreq[p].op = "Set" -> ClientSetOutcome(hreq[p].key, rpc[p])
                    [] hreq[p].op = "Delete" -> ClientDeleteOutcome(hreq[p].key, rpc[p])
                    [] OTHER -> ClientHealthOutcome(rpc[p])]
    /\ hpc' = [hpc EXCEPT ![p] = "client_done"]
    /\ UNCHANGED <<kvVars, hreq, rpc, hres, clientCalls, routerVars>>

NextClient ==
    \E p \in Procs :
        \/ ClientGet(p) \/ ClientSet(p) \/ ClientDelete(p) \/ ClientHealth(p)
        \/ MockRpcReturn(p) \/ ClientReturn(p) \/ HttpReset(p)

\* KVStoreClient over the MockKeyValueServiceClient of the client tests.
SpecClient == Init /\ [][NextClient]_vars

NextHandler ==
    \E p \in Procs :
        \/ GetValueByKey(p) \/ UpdateValue(p) \/ DeleteValue(p)
        \/ MockClientReturn(p) \/ HandlerRespond(p) \/ HttpReset(p)

\* The handlers over the MockKVStoreClient of the handler tests.
SpecHandler == Init /\ [][NextHandler]_vars

\* ------------------------------------------------------------ the router
\* The x-api-key header of a request: absent, or present with a value.
AbsentHeader == [arrived |-> TRUE, present |-> FALSE, value |-> ""]
PresentHeader(v) == [arrived |-> TRUE, present |-> TRUE, value |-> v]
Headers == {AbsentHeader} \cup {PresentHeader(v) : v \in {"my-secret-key", "other-key"}}
\* c.Request().Header.Get("x-api-key"): the empty string when the header is absent.
HeaderGet(h) == IF h.present THEN h.value ELSE ""
\* c.String(status, s)
String(status, s) == [status |-> status, body |-> [kind |-> "String", Text |-> s]]

\* An HTTP request of caller p reaches the echo server.
Arrive(p) ==
    /\ hpc[p] = "idle"
    /\ ~header[p].arrived
    /\ \E h \in Headers : header' = [header EXCEPT ![p] = h]
    /\ UNCHANGED <<kvVars, hpc, hreq, rpc, cres, hres, clientCalls, config>>

\* GET /health: outside the /v1 group, no middleware.
RouteHealth(p) ==
    /\ header[p].arrived
    /\ Respond(p, HttpReq("health", "", "", TRUE),
               String(StatusOK, <<"I am alive in ", config.Environment>>))

\* Mutant: the middleware lets every request through.
APIKeyMiddlewareOpen(p, op, next) == header[p].arrived /\ next
\* The middleware of the /v1 group in front of the handler next.
APIKeyMiddleware(p, op, next) ==
    /\ header[p].arrived
    /\ IF HeaderGet(header[p]) # config.APIKey
       THEN \E k \in HttpKeys :
                Respond(p, HttpReq(op, k, "", TRUE),
                        JSON(StatusUnauthorized, ErrorResponse(<<"Invalid API key">>)))
       ELSE next

V1Get(p) == APIKeyMiddleware(p, "GetValueByKey", GetValueByKey(p))
V1Put(p) == APIKeyMiddleware(p, "UpdateValue", UpdateValue(p))
V1Delete(p) == APIKeyMiddleware(p, "DeleteValue", DeleteValue(p))

\* ------------------------------- the gateway's client against the server
\* The method of KVStoreClient the handler called sends its request to the
\* KeyValueServer: the server method is entered with the handler's key and value.
GrpcCall(p, hop, op) ==
    /\ hpc[p] = "client"
    /\ hreq[p].via = "http"
    /\ hreq[p].op = hop
    /\ Enter(p, [via |-> "server", op |-> op, key |-> hreq[p].key, value |-> hreq[p].value])

GrpcGet(p) == GrpcCall(p, "GetValueByKey", "Get")
GrpcSet(p) == GrpcCall(p, "UpdateValue", "Set")
GrpcDelete(p) == GrpcCall(p, "DeleteValue", "Delete")

\* The stub returns to KVStoreClient what the server method returned.
GrpcReturn(p) ==
    /\ hpc[p] = "client"
    /\ pc[p] = "done"
    /\ rpc' = [rpc EXCEPT ![p] = result[p]]
    /\ hpc' = [hpc EXCEPT ![p] = "rpc_done"]
    /\ UNCHANGED <<kvVars, hreq, cres, hres, clientCalls, routerVars>>

\* The server's record of the request is dropped once the HTTP response is written.
ServerReset(p) == hpc[p] = "responded" /\ Reset(p)

\* The method of KVStoreClient the handler called maps what the stub returned.
GatewayClientReturn(p) ==
    /\ hpc[p] = "rpc_done"
    /\ hreq[p].via = "http"
    /\ cres' = [cres EXCEPT ![p] =
                  CASE hreq[p].op = "GetValueByKey" -> ClientGetOutcome(hreq[p].key, rpc[p])
                    [] hreq[p].op = "UpdateValue" -> ClientSetOutcome(hreq[p].key, rpc[p])
                    [] OTHER -> ClientDeleteOutcome(hreq[p].key, rpc[p])]
    /\ hpc' = [hpc EXCEPT ![p] = "client_done"]
    /\ UNCHANGED <<kvVars, hreq, rpc, hres, clientCalls, routerVars>>

\* The response is written once the server has let go of the request.
GatewayReset(p) == pc[p] = "idle" /\ HttpReset(p)

NextGateway ==
    \E p \in Procs :
        \/ Arrive(p) \/ RouteHealth(p) \/ V1Get(p) \/ V1Put(p) \/ V1Delete(p)
        \/ GrpcGet(p) \/ GrpcSet(p) \/ GrpcDelete(p)
        \/ StoreStep(p)
        \/ GetReturn(p) \/ SetReturn(p) \/ DeleteReturn(p)
        \/ GrpcReturn(p) \/ ServerReset(p)
        \/ GatewayClientReturn(p) \/ HandlerRespond(p) \/ GatewayReset(p)

\* HTTP router, handlers, KVStoreClient, KeyValueServer and InMemoryStore.
SpecGateway == InitGateway /\ [][NextGateway]_vars

\* The goroutine of a call that can take a step eventually takes it: the Go
\* scheduler runs every runnable goroutine, and a goroutine parked in RLock or
\* Lock is made runnable when the lock is released.
Fairness == \A p \in Procs : WF_vars(StoreStep(p))
SpecStoreFair == SpecStore /\ Fairness
\* The server over the InMemoryStore.
Spec == Init /\ [][Next]_vars
\* The server over a MockStorer.
SpecMock == InitMock /\ [][NextMock]_vars
\* The server over a Storer that reports absence in its own wording.
SpecAbsence == InitAbsence /\ [][NextMock]_vars
\* ================================================================ claims
Done(p, op) == pc[p] = "done" /\ req[p].op = op
WriterCS == {p \in Procs : pc[p] \in {"set_write", "delete_write", "unlock"}}
ReaderCS == {p \in Procs : pc[p] \in {"get_check", "get_read", "runlock"}}
Last(s) == s[Len(s)]
SetOk == [resp |-> SetResponse(TRUE, ""), err |-> NilStatus]
DeleteOk == [resp |-> DeleteResponse(TRUE, ""), err |-> NilStatus]
NotFound == [resp |-> GetResponse("", FALSE, ""), err |-> NilStatus]
Found(v) == [resp |-> GetResponse(v, TRUE, ""), err |-> NilStatus]
StoreFailed(p) == pc[p] = "done" /\ invoked[p] /\ ~storeRes[p].err.isNil

\* C1: in every reachable state at most one Set or Delete is between its
\* Lock and its Unlock, and while one is, no Get is between its RLock and
\* its RUnlock.
C1_MutualExclusion ==
    /\ Cardinality(WriterCS) <= 1
    /\ WriterCS # {} => ReaderCS = {}

\* A writer is in its critical section, about to write, while a Get of the
\* same key has been called and waits for the lock.
C1_Witness ==
    \E p \in WriterCS : \E q \in Procs \ {p} :
        /\ pc[p] = "set_write"
        /\ pc[q] = "call" /\ req[q].op = "Get" /\ req[q].key = req[p].key

\* C2: when the only requests ever issued are one Set of the same non-empty
\* key by each caller, and all of them have returned, every one returned
\* success=true with no transport error, and the key's stored value is the
\* value of one of the calls: the one that acquired the write lock last.
AllSetsReturned(k) ==
    /\ calls = NumProcs
    /\ \A p \in Procs : Done(p, "Set") /\ req[p].key = k

C2_ConcurrentSets ==
    \A k \in Keys \ {""} :
        AllSetsReturned(k) =>
            /\ \A p \in Procs : result[p] = SetOk
            /\ MapHas(store, k)
            /\ \E p \in Procs : store[k] = req[p].value /\ lastLock[k].proc = p
            /\ store[k] = lastLock[k].value

\* All the concurrent Sets of "a" have returned, and they did not all carry
\* the same value.
C2_Witness ==
    /\ AllSetsReturned("a")
    /\ \E p, q \in Procs : req[p].value # req[q].value

\* C3: a Get, Set or Delete request with the empty key ends in the step that
\* issues it, with a nil response and an InvalidArgument status; the Storer
\* is not invoked for it, and the mapping and the lock are as before.
C3_EmptyKeyRejected ==
    [][\A p \in Procs :
         (/\ pc[p] = "idle" /\ pc'[p] # "idle"
          /\ req'[p].op \in {"Get", "Set", "Delete"}
          /\ req'[p].key = "")
         => /\ pc'[p] = "done"
            /\ result'[p].resp = NilResp
            /\ result'[p].err.code = "InvalidArgument"
            /\ ~invoked'[p]
            /\ store' = store
            /\ mutex' = mutex]_vars

\* A Set with the empty key has been rejected while the mapping holds an entry.
C3_Witness ==
    \E p \in Procs :
        /\ Done(p, "Set") /\ req[p].key = "" /\ req[p].value = "x"
        /\ result[p].err.code = "InvalidArgument"
        /\ ~invoked[p]
        /\ MapHas(store, "a")

\* C4: a Get of k that reads the map when the last write applied to k is a
\* Set of v returns v with found=true; in particular after Set(k, v1) then
\* Set(k, v2) it returns v2, and never a value that is not the last one set.
C4_Overwrite ==
    \A p \in Procs :
        (Done(p, "Get") /\ Len(obs[p]) >= 1 /\ Last(obs[p]).op = "Set")
        => result[p] = Found(Last(obs[p]).value)

\* A Get has returned after Set(k, v1) and Set(k, v2) with v1 # v2.
C4_Witness ==
    \E p \in Procs :
        /\ Done(p, "Get") /\ Len(obs[p]) = 2
        /\ obs[p][1].op = "Set" /\ obs[p][2].op = "Set"
        /\ obs[p][1].value # obs[p][2].value
        /\ result[p].resp.kind = "GetResponse"
        /\ result[p].resp.Value = obs[p][2].value

\* C5: a Get of a non-empty key k that returns when no InMemoryStore.Set of k
\* has returned yields the response value "", found=false with a nil
\* transport error, whatever other operations came before.
C5_NeverWritten ==
    [][\A p \in Procs :
         (/\ pc[p] = "ret" /\ pc'[p] = "done" /\ req[p].op = "Get"
          /\ req[p].key \notin setDone)
         => result'[p] = NotFound]_vars

\* A Get of "a" has returned not-found after a Delete of "a" and a Set of
\* another key were applied.
C5_Witness ==
    \E p \in Procs :
        /\ Done(p, "Get") /\ req[p].key = "a" /\ "a" \notin setDone
        /\ result[p] = NotFound
        /\ "b" \in setDone
        /\ log["a"] # <<>>

\* C6: the Store's Delete returns a nil error; when the key is not in the
\* mapping it leaves the mapping as it was; after it the key is absent and
\* one more Delete of the key would leave the mapping as the first left it;
\* and the server answers success=true with no transport error.
C6_DeleteIdempotent ==
    [][\A p \in Procs :
         /\ (pc[p] = "delete_write" /\ pc'[p] # "delete_write")
            => /\ storeRes'[p].err = NoError
               /\ ~MapHas(store, req[p].key) => store' = store
               /\ ~MapHas(store', req[p].key)
               /\ MapDelete(store', req[p].key) = store'
               /\ \A j \in Keys \ {req[p].key} :
                    MapHas(store', j) = MapHas(store, j) /\ MapGet(store', j) = MapGet(store, j)
         /\ (pc[p] = "ret" /\ pc'[p] = "done" /\ req[p].op = "Delete")
            => result'[p] = DeleteOk]_vars

\* Delete("a") ran twice in a row on a mapping that holds "b", and the
\* second one has returned success.
C6_Witness ==
    \E p \in Procs :
        /\ Done(p, "Delete") /\ req[p].key = "a"
        /\ result[p] = DeleteOk
        /\ log["a"] = <<DeleteEvent, DeleteEvent>>
        /\ MapHas(store, "b")

\* C7: when the Storer's Set (Delete) returned an error, the server's Set
\* (Delete) returns a response with success=false and the error's message,
\* and a nil transport error.
C7_StoreErrorAsData ==
    \A p \in Procs :
        (StoreFailed(p) /\ req[p].op \in {"Set", "Delete"})
        => /\ result[p].resp.kind = (IF req[p].op = "Set" THEN "SetResponse" ELSE "DeleteResponse")
           /\ result[p].resp.Success = FALSE
           /\ result[p].resp.Error = storeRes[p].err.msg
           /\ result[p].err = NilStatus

\* A failed Set and a failed Delete have both returned.
C7_Witness ==
    \E p, q \in Procs :
        /\ StoreFailed(p) /\ req[p].op = "Set" /\ storeRes[p].err.msg = "storage failed"
        /\ StoreFailed(q) /\ req[q].op = "Delete" /\ storeRes[q].err.msg = "delete failed"

\* C8: with a Storer whose Set always fails and that reports keys absent, a
\* Set returns success=false with the failure's message as error and a nil
\* transport error, the mapping stays as it was, and a Get of the same key
\* issued after the failed Set returned reports found=false.
WritesFail == impl.SetFunc # "nil" /\ impl.GetFunc = "notfound"

C9_GetStoreError ==
    \A p \in Procs :
        (StoreFailed(p) /\ req[p].op = "Get" /\ storeRes[p].err.msg # "key not found")
        => /\ result[p].resp = NilResp
           /\ result[p].err.code = "Internal"

\* A Get whose Storer call failed with "connection failed" has returned.
C9_Witness ==
    \E p \in Procs :
        /\ StoreFailed(p) /\ req[p].op = "Get"
        /\ storeRes[p].err.msg = "connection failed"
        /\ result[p].err.code = "Internal"

\* C10 as claimed: whenever the Storer fails for an infrastructure reason, the
\* server's Get, Set or Delete returns a transport error with code Internal
\* and no response.
InfraFailure(p) == StoreFailed(p) /\ storeRes[p].err.msg = "connection failed"

C10_Original ==
    \A p \in Procs :
        InfraFailure(p) => result[p].resp = NilResp /\ result[p].err.code = "Internal"

\* C10 amended: an infrastructure failure of the Storer's Get is returned as
\* a transport error with code Internal; one of the Storer's Set or Delete is
\* returned as a response with success=false carrying the message, with a
\* nil transport error.
C10_InfraFailure ==
    \A p \in Procs :
        InfraFailure(p) =>
            IF req[p].op = "Get"
            THEN result[p].resp = NilResp /\ result[p].err.code = "Internal"
            ELSE /\ result[p].resp.kind # "nil"
                 /\ ~result[p].resp.Success
                 /\ result[p].resp.Error = "connection failed"
                 /\ result[p].err = NilStatus

\* A Get and a Set have each hit an unavailable Storer and returned.
C10_Witness ==
    \E p, q \in Procs :
        /\ InfraFailure(p) /\ req[p].op = "Get" /\ result[p].err.code = "Internal"
        /\ InfraFailure(q) /\ req[q].op = "Set" /\ result[q].resp.kind = "SetResponse"

\* C11 as claimed: every request of the server ends with either a response
\* and a nil transport error or no response and a transport error; a Set or
\* Delete response with success=false carries a non-empty message and one
\* with success=true an empty one.
OneOutcome(p) == (result[p].resp = NilResp) # (result[p].err = NilStatus)
IsWriteResponse(p) == result[p].resp.kind \in {"SetResponse", "DeleteResponse"}

C11_Original ==
    \A p \in Procs :
        pc[p] = "done" =>
            /\ OneOutcome(p)
            /\ IsWriteResponse(p) => (result[p].resp.Success <=> result[p].resp.Error = "")

\* C11 amended: every request ends with exactly one of the two outcomes; a
\* Set or Delete response with success=true carries an empty message, and one
\* with success=false carries the message of the Storer's error, which is
\* empty when that error's message is empty.
C11_OneOutcome ==
    \A p \in Procs :
        pc[p] = "done" =>
            /\ OneOutcome(p)
            /\ IsWriteResponse(p) =>
                 /\ result[p].resp.Success <=> storeRes[p].err.isNil
                 /\ result[p].resp.Success => result[p].resp.Error = ""
                 /\ ~result[p].resp.Success => result[p].resp.Error = storeRes[p].err.msg
                 /\ storeRes[p].err.msg # "" => (result[p].resp.Success <=> result[p].resp.Error = "")

\* A Set whose Storer call failed with an error of empty message has returned
\* success=false with an empty error, while a Get was rejected.
C11_Witness ==
    \E p, q \in Procs :
        /\ Done(p, "Set") /\ result[p] = [resp |-> SetResponse(FALSE, ""), err |-> NilStatus]
        /\ Done(q, "Get") /\ result[q].resp = NilResp /\ result[q].err.code = "InvalidArgument"

\* The result of a Store Get of an absent key.
KeyNotFound == [value |-> "", err |-> NewError("key not found")]
Returned(p, op) == pc[p] \in {"ret", "done"} /\ req[p].op = op /\ invoked[p]

\* C12 as claimed: the Store's Get never returns an error, for any key.
C12_Original ==
    \A p \in Procs : Returned(p, "Get") => storeRes[p].err.isNil

\* C12 amended: the Store's Get signals absence by the error "key not found"
\* with an empty value, for every key including the empty one, and returns a
\* nil error exactly when the key was present at the read.
C12_AbsenceIsError ==
    \A p \in Procs :
        Returned(p, "Get") =>
            IF obs[p] = <<>> \/ Last(obs[p]) = DeleteEvent
            THEN storeRes[p] = KeyNotFound
            ELSE storeRes[p].err.isNil

\* A direct Get of the empty key, absent, has returned "key not found", and a
\* direct Get of a present key has returned a nil error.
C12_Witness ==
    \E p, q \in Procs :
        /\ Returned(p, "Get") /\ req[p].via = "store" /\ req[p].key = ""
        /\ storeRes[p] = KeyNotFound
        /\ Returned(q, "Get") /\ req[q].via = "store" /\ storeRes[q].err.isNil

\* C13: InMemoryStore.Get(k) returns (v, nil) exactly when k is in the mapping
\* with value v, the empty string included, and ("", "key not found") exactly
\* when k is absent; the result is compared with the mapping while the read
\* lock is still held.
C13_GetResult ==
    \A p \in Procs :
        pc[p] = "runlock" =>
            storeRes[p] = IF req[p].key \in DOMAIN store
                          THEN [value |-> store[req[p].key], err |-> NoError]
                          ELSE KeyNotFound

\* One Get is about to return a stored empty value and another "key not found".
C13_Witness ==
    \E p, q \in Procs :
        /\ pc[p] = "runlock" /\ req[p].key \in DOMAIN store /\ store[req[p].key] = ""
        /\ storeRes[p] = [value |-> "", err |-> NoError]
        /\ pc[q] = "runlock" /\ req[q].key \notin DOMAIN store
        /\ storeRes[q] = KeyNotFound

\* started[p] is the sequence of writes applied to the key of p's Get when the
\* Get was issued and obs[p] the one it read under: they are equal when no Set
\* or Delete of that key was applied in between.
Undisturbed(p) == started[p] # <<>> /\ obs[p] = started[p]

\* C14: a Get of k issued after Set(k, "") was applied, with no Set or Delete
\* of k applied before it reads, reports the key present with the empty
\* value: the Store returns ("", nil) and the server ("", found=true), which
\* differs from the answer for an absent key.
C14_EmptyValuePresent ==
    \A p \in Procs :
        (Done(p, "Get") /\ Undisturbed(p) /\ Last(started[p]) = SetEvent(""))
        => /\ storeRes[p] = [value |-> "", err |-> NoError]
           /\ result[p] = Found("")
           /\ result[p] # NotFound

\* A Get issued after Set(k, "") has returned found=true with the empty value.
C14_Witness ==
    \E p \in Procs :
        /\ Done(p, "Get") /\ Undisturbed(p) /\ Last(started[p]) = SetEvent("")
        /\ result[p].resp.Found /\ result[p].resp.Value = ""

\* C15: a Get of k issued after Set(k, v) was applied, with no other Set or
\* Delete of k applied before it reads, returns v with found=true; and a Get
\* leaves its call to RLock only when no Set or Delete holds the write lock,
\* so a Get invoked while a writer holds the lock returns after the release.
C15_GetStep(p) ==
    /\ (pc[p] = "call" /\ req[p].op = "Get" /\ pc'[p] # "call")
       => mutex.writer = None /\ WriterCS = {}
    /\ (pc[p] = "ret" /\ pc'[p] = "done" /\ req[p].op = "Get"
        /\ Undisturbed(p) /\ Last(started[p]).op = "Set")
       => result'[p] = Found(Last(started[p]).value)

C15_Visibility == [][\A p \in Procs : C15_GetStep(p)]_vars

\* A Get of k, invoked after Set(k, v) was applied, waits in RLock while a
\* writer holds the lock.
C15_Witness ==
    \E p, q \in Procs :
        /\ pc[p] = "call" /\ req[p].op = "Get"
        /\ started[p] # <<>> /\ Last(started[p]) = SetEvent("x")
        /\ mutex.writer = q /\ pc[q] \in {"set_write", "delete_write", "unlock"}

InStore == {"call", "get_check", "get_read", "runlock",
            "lock_wait", "set_write", "delete_write", "unlock"}

\* C16: under fair scheduling every invoked Get, Set and Delete of the Store
\* eventually returns, and whenever a call is inside the Store some call can
\* take a step: the lock never deadlocks.
C16_Returns ==
    /\ \A p \in Procs : (pc[p] \in InStore) ~> (pc[p] = "ret")
    /\ []((\E p \in Procs : pc[p] \in InStore) => (\E p \in Procs : ENABLED StoreStep(p)))

\* A Get that had to let a write of its key pass and that write have both
\* returned.
C16_Witness ==
    \E p, q \in Procs :
        /\ pc[p] = "ret" /\ req[p].op = "Get" /\ obs[p] # started[p]
        /\ pc[q] = "ret" /\ req[q].op \in {"Set", "Delete"} /\ req[q].key = req[p].key

\* C17: a Get of k issued after Delete(k) was applied reports the key absent
\* until a later Set of k is applied, and a Get of k issued after Set(k, v) was
\* applied reports v with found=true until a later Set or Delete of k is
\* applied, at the Store and through the server.
C17_ReadYourWrites ==
    \A p \in Procs :
        (Done(p, "Get") /\ Undisturbed(p)) =>
            IF Last(started[p]) = DeleteEvent
            THEN storeRes[p] = KeyNotFound /\ result[p] = NotFound
            ELSE /\ storeRes[p] = [value |-> Last(started[p]).value, err |-> NoError]
                 /\ result[p] = Found(Last(started[p]).value)

\* A Get issued after Set(k, v) and then Delete(k) has reported the key absent.
C17_Witness ==
    \E p \in Procs :
        /\ Done(p, "Get") /\ Undisturbed(p)
        /\ Len(started[p]) = 2 /\ started[p][1].op = "Set" /\ started[p][2] = DeleteEvent
        /\ result[p] = NotFound

Entry(m, j) == IF j \in DOMAIN m THEN <<TRUE, m[j]>> ELSE <<FALSE, "">>
WritesKey(p, j) ==
    /\ pc[p] \in {"set_write", "delete_write"}
    /\ pc'[p] = "unlock"
    /\ req[p].key = j

\* C18: a Set(k, v) or Delete(k) changes the entry of k only: in every step the
\* presence and the value of a key change only by the write of a Set or Delete
\* of that very key, which leaves the entry as (present, v) or as absent.
C18_Frame ==
    [][\A j \in Keys :
          /\ Entry(store', j) # Entry(store, j) => \E p \in Procs : WritesKey(p, j)
          /\ \A p \in Procs :
                WritesKey(p, j) =>
                    Entry(store', j) = IF req[p].op = "Set"
                                       THEN <<TRUE, req[p].value>>
                                       ELSE <<FALSE, "">>]_vars

\* A Delete of one key has been applied while the entry of another key, set
\* before, is still in the map.
C18_Witness ==
    \E p \in Procs :
        /\ pc[p] = "unlock" /\ req[p].op = "Delete"
        /\ Len(log[req[p].key]) = 2
        /\ \E j \in DOMAIN store : j # req[p].key /\ store[j] = "x"

\* C19: InMemoryStore.Set and InMemoryStore.Delete return a nil error for every
\* key, value and state of the map, so over the InMemoryStore every Set and
\* Delete of the server with a non-empty key returns success=true with an
\* empty error.
C19_WritesSucceed ==
    \A p \in Procs :
        /\ (Returned(p, "Set") \/ Returned(p, "Delete")) => storeRes[p].err = NoError
        /\ (Done(p, "Set") /\ req[p].via = "server" /\ req[p].key # "") => result[p] = SetOk
        /\ (Done(p, "Delete") /\ req[p].via = "server" /\ req[p].key # "") => result[p] = DeleteOk

\* A direct Delete of the empty key, never set, has returned nil, and a Set
\* through the server has returned success=true.
C19_Witness ==
    \E p, q \in Procs :
        /\ Returned(p, "Delete") /\ req[p].via = "store" /\ req[p].key = ""
        /\ log[""] = <<DeleteEvent>> /\ storeRes[p].err = NoError
        /\ Done(q, "Set") /\ req[q].via = "server" /\ result[q] = SetOk

\* C20: the Store puts no restriction on keys: Set("", v) succeeds and stores v
\* under the empty key, a Get("") that reads after it returns v, a Get("") of
\* a never-set empty key reports absence, and Delete("") succeeds and removes
\* the entry.
C20_EmptyKeyAtStore ==
    \A p \in Procs :
        (req[p].via = "store" /\ req[p].key = "") =>
            /\ pc[p] = "unlock" =>
                 /\ storeRes[p].err = NoError
                 /\ Entry(store, "") = IF req[p].op = "Set"
                                       THEN <<TRUE, req[p].value>>
                                       ELSE <<FALSE, "">>
            /\ Returned(p, "Get") =>
                 storeRes[p] = IF obs[p] = <<>> \/ Last(obs[p]) = DeleteEvent
                               THEN KeyNotFound
                               ELSE [value |-> Last(obs[p]).value, err |-> NoError]

\* A direct Get("") has returned the value a direct Set("", v) stored, and a
\* Delete("") has then removed the entry.
C20_Witness ==
    \E p, q \in Procs :
        /\ Returned(p, "Get") /\ req[p].via = "store" /\ req[p].key = ""
        /\ storeRes[p] = [value |-> "x", err |-> NoError]
        /\ pc[q] = "unlock" /\ req[q].op = "Delete" /\ req[q].key = ""
        /\ "" \notin DOMAIN store

\* C21: a Health request of the server returns, in every state, a response
\* with status "healthy" and a timestamp and a nil transport error; it does
\* not call the Storer, and its step leaves the map and the lock as they were.
C21_HealthStep(p) ==
    (req'[p].op = "Health" /\ pc[p] = "idle" /\ pc'[p] # "idle") =>
        /\ pc'[p] = "done"
        /\ result'[p].resp.kind = "HealthResponse"
        /\ result'[p].resp.Status = "healthy"
        /\ result'[p].resp.Timestamp \in Timestamps
        /\ result'[p].err = NilStatus
        /\ ~invoked'[p] /\ storeRes'[p] = NoStoreRes
        /\ store' = store /\ mutex' = mutex /\ log' = log

C21_Health == [][\A p \in Procs : C21_HealthStep(p)]_vars

\* A Health request has been answered "healthy" while a writer holds the lock.
C21_Witness ==
    \E p, q \in Procs :
        /\ Done(p, "Health") /\ result[p].resp.Status = "healthy" /\ ~invoked[p]
        /\ mutex.writer = q /\ pc[q] \in {"set_write", "delete_write", "unlock"}

Responded(p, op) == hpc[p] = "responded" /\ hreq[p].op = op
EmptyKeyRequest(p) == hreq[p].via = "http" /\ hreq[p].key = "" /\ hpc[p] # "idle"

\* C22 as claimed: GetValueByKey, UpdateValue and DeleteValue answer a request
\* with an empty key with 400 and never call the client for it.
C22_Original ==
    \A p \in Procs :
        EmptyKeyRequest(p) =>
            /\ clientCalls[p] = 0
            /\ hpc[p] = "responded" /\ hres[p].status = StatusBadRequest

\* C22, the part that holds: UpdateValue (key missing or empty in the body) and
\* DeleteValue answer an empty key with 400 "Key is required" and never call
\* the client; GetValueByKey has no such test and calls the client with the
\* empty key.
C22_EmptyKeyWrites ==
    \A p \in Procs :
        EmptyKeyRequest(p) =>
            IF hreq[p].op = "GetValueByKey"
            THEN clientCalls[p] = 1
            ELSE /\ clientCalls[p] = 0
                 /\ hpc[p] = "responded"
                 /\ hres[p].status = StatusBadRequest
                 /\ hreq[p].bodyOk => hres[p].body = ErrorResponse(<<"Key is required">>)

\* An UpdateValue and a DeleteValue with the empty key have been answered 400.
C22_Witness ==
    \E p, q \in Procs :
        /\ Responded(p, "UpdateValue") /\ hreq[p].bodyOk /\ hreq[p].key = ""
        /\ hres[p].status = StatusBadRequest
        /\ Responded(q, "DeleteValue") /\ hreq[q].key = ""
        /\ hres[q].status = StatusBadRequest /\ clientCalls[q] = 0

\* C23: GetValueByKey maps what the client returned to exactly one status: an
\* error gives 500 with an error body, whatever the found flag; no error and
\* found=false gives 404 with an error body; no error and found=true gives 200
\* with the requested key and the returned value.
C23_GetMapping ==
    \A p \in Procs :
        Responded(p, "GetValueByKey") =>
            /\ clientCalls[p] = 1
            /\ ~cres[p].err.isNil =>
                 hres[p] = JSON(StatusInternalServerError, ErrorResponse(<<"Failed to get value">>))
            /\ (cres[p].err.isNil /\ ~cres[p].found) =>
                 hres[p] = JSON(StatusNotFound, ErrorResponse(<<"Key not found">>))
            /\ (cres[p].err.isNil /\ cres[p].found) =>
                 hres[p] = JSON(StatusOK, KeyValue(hreq[p].key, cres[p].value))

\* One GetValueByKey was answered 500 although the client returned found=true
\* with its error, and another 200 with the empty value.
C23_Witness ==
    \E p, q \in Procs :
        /\ Responded(p, "GetValueByKey") /\ ~cres[p].err.isNil /\ cres[p].found
        /\ hres[p].status = StatusInternalServerError
        /\ Responded(q, "GetValueByKey") /\ cres[q].err.isNil /\ cres[q].found
        /\ hres[q] = JSON(StatusOK, KeyValue("a", ""))

\* C24: UpdateValue and DeleteValue with a non-empty key call the client
\* exactly once and map its result: an error gives 500 with an error body,
\* success gives 200 with the request's key and value for UpdateValue and 204
\* without a body for DeleteValue; an UpdateValue whose body does not bind is
\* answered 400 without a client call.
C24_WriteMapping ==
    \A p \in Procs :
        /\ (Responded(p, "UpdateValue") /\ ~hreq[p].bodyOk) =>
             /\ clientCalls[p] = 0
             /\ hres[p] = JSON(StatusBadRequest, ErrorResponse(<<"Invalid request body">>))
        /\ (Responded(p, "UpdateValue") /\ hreq[p].bodyOk /\ hreq[p].key # "") =>
             /\ clientCalls[p] = 1
             /\ hres[p] = IF cres[p].err.isNil
                          THEN JSON(StatusOK, KeyValue(hreq[p].key, hreq[p].value))
                          ELSE JSON(StatusInternalServerError,
                                    ErrorResponse(<<"Failed to update value ">> \o cres[p].err.msg))
        /\ (Responded(p, "DeleteValue") /\ hreq[p].key # "") =>
             /\ clientCalls[p] = 1
             /\ hres[p] = IF cres[p].err.isNil
                          THEN NoContent(StatusNoContent)
                          ELSE JSON(StatusInternalServerError,
                                    ErrorResponse(<<"Failed to delete value">>))

\* An UpdateValue whose client call failed was answered 500 and a DeleteValue
\* whose client call succeeded 204.
C24_Witness ==
    \E p, q \in Procs :
        /\ Responded(p, "UpdateValue") /\ hreq[p].key = "a" /\ ~cres[p].err.isNil
        /\ hres[p].status = StatusInternalServerError
        /\ Responded(q, "DeleteValue") /\ hreq[q].key = "a" /\ cres[q].err.isNil
        /\ hres[q].status = StatusNoContent

ClientDone(p, op) == hpc[p] = "client_done" /\ hreq[p].via = "client" /\ hreq[p].op = op

\* C25: KVStoreClient.Set and KVStoreClient.Delete return nil exactly when the
\* RPC returned no transport error and a response with success=true; a
\* response with success=false gives the error "set operation failed: <msg>"
\* or "delete operation failed: <msg>" with the server's error text, and a
\* transport error gives an error that starts "failed to set key <k>" or
\* "failed to delete key <k>", so the two kinds of failure differ in their text.
C25_WriteResult(p, op, failed, failedTo) ==
    ClientDone(p, op) =>
        /\ cres[p].err.isNil <=> (rpc[p].err = NilStatus /\ rpc[p].resp.Success)
        /\ (rpc[p].err = NilStatus /\ ~rpc[p].resp.Success) =>
             cres[p].err.msg = <<failed, rpc[p].resp.Error>>
        /\ rpc[p].err # NilStatus =>
             /\ cres[p].err.msg[1] = failedTo /\ cres[p].err.msg[2] = hreq[p].key
             /\ cres[p].err.msg[1] # failed

C25_ClientWrites ==
    \A p \in Procs :
        /\ C25_WriteResult(p, "Set", "set operation failed: ", "failed to set key ")
        /\ C25_WriteResult(p, "Delete", "delete operation failed: ", "failed to delete key ")

\* A Set has failed by its payload and a Delete by the transport.
C25_Witness ==
    \E p, q \in Procs :
        /\ ClientDone(p, "Set") /\ rpc[p] = RpcOk(SetResponse(FALSE, "storage failed"))
        /\ cres[p].err = FmtErrorf(<<"set operation failed: ", "storage failed">>)
        /\ ClientDone(q, "Delete") /\ rpc[q].err = RpcError
        /\ ~cres[q].err.isNil

\* C26: KVStoreClient.Get returns the value and the found flag of the response
\* unchanged with a nil error whenever the RPC returned no transport error,
\* found=false included, and ("", false, error) whenever it returned one;
\* KVStoreClient.Health returns nil exactly when the RPC returned no transport
\* error and the status "healthy".
C26_ClientReads ==
    \A p \in Procs :
        /\ ClientDone(p, "Get") =>
             IF rpc[p].err = NilStatus
             THEN cres[p] = ClientRes(rpc[p].resp.Value, rpc[p].resp.Found, NilErr)
             ELSE cres[p].value = "" /\ ~cres[p].found /\ ~cres[p].err.isNil
        /\ ClientDone(p, "Health") =>
             (cres[p].err.isNil <=> (rpc[p].err = NilStatus /\ rpc[p].resp.Status = "healthy"))

\* A Get has passed found=false on without an error and a Health has failed
\* on the status "unhealthy".
C26_Witness ==
    \E p, q \in Procs :
        /\ ClientDone(p, "Get") /\ rpc[p].err = NilStatus /\ ~rpc[p].resp.Found
        /\ cres[p].err.isNil /\ ~cres[p].found
        /\ ClientDone(q, "Health") /\ rpc[q].err = NilStatus /\ rpc[q].resp.Status = "unhealthy"
        /\ ~cres[q].err.isNil

\* C27: the server's Get takes a Storer error for absence exactly when its
\* message is the string "key not found": then it answers found=false with the
\* empty value and a nil transport error; a Storer that reports absence in any
\* other wording has it returned as an Internal transport error without a
\* response.
C27_AbsenceByMessage ==
    \A p \in Procs :
        (Done(p, "Get") /\ invoked[p] /\ ~storeRes[p].err.isNil) =>
            /\ (result[p] = NotFound) <=> (storeRes[p].err.msg = "key not found")
            /\ storeRes[p].err.msg # "key not found" =>
                 result[p] = [resp |-> NilResp,
                              err |-> Errorf("Internal", <<"service failed to get value: ",
                                                          storeRes[p].err.msg>>)]

\* A Get over a Storer that reports absence as "Key not found" has returned
\* an Internal error.
C27_Witness ==
    \E p \in Procs :
        /\ Done(p, "Get") /\ invoked[p] /\ impl.GetFunc = "capital"
        /\ storeRes[p].err.msg = "Key not found"
        /\ result[p].resp = NilResp /\ result[p].err.code = "Internal"

\* C28: several Gets of the Store can be inside their critical sections at the
\* same time: a Get that has called RLock is granted the lock whenever no
\* writer holds it or waits for it, whatever the readers inside, and the
\* callers between RLock and RUnlock are exactly the holders of the read lock.
C28_ReadersShare ==
    /\ \A p \in Procs :
          (pc[p] = "call" /\ req[p].op = "Get" /\ mutex.writer = None /\ mutex.pending = None)
          => ENABLED RLock(p)
    /\ mutex.readers = ReaderCS

\* Two Gets hold the read lock at the same time.
C28_Witness ==
    \E p, q \in Procs :
        /\ p # q
        /\ {p, q} \subseteq mutex.readers
        /\ pc[p] \in {"get_check", "get_read"} /\ pc[q] \in {"get_check", "get_read"}

\* C29: the presence check and the value read of a Get of the Store happen
\* under one hold of the read lock: no step changes the map while a Get is
\* between its check and its return, so the read finds the key as the check
\* found it and returns the value of the last Set applied at that instant,
\* never ("", nil) for a key deleted in between.
C29_GetStep(p) ==
    /\ pc[p] \in {"get_check", "get_read", "runlock"} => store' = store /\ log' = log
    /\ (pc[p] = "get_read" /\ pc'[p] = "runlock") =>
          /\ log[req[p].key] = obs[p]
          /\ Last(obs[p]).op = "Set"
          /\ storeRes'[p] = [value |-> Last(obs[p]).value, err |-> NoError]

C29_GetAtomic == [][\A p \in Procs : C29_GetStep(p)]_vars

\* A Get has read the value of its key while a Delete of that key waits for
\* the lock.
C29_Witness ==
    \E p, q \in Procs :
        /\ pc[p] = "runlock" /\ storeRes[p] = [value |-> "x", err |-> NoError]
        /\ pc[q] = "lock_wait" /\ req[q].op = "Delete" /\ req[q].key = req[p].key

\* The sequential map the Store is compared with: each call takes effect in
\* one atomic step between its invocation and its return.
AtomicGet(m, k) == IF k \in DOMAIN m THEN [value |-> m[k], err |-> NoError] ELSE KeyNotFound
AtomicSet(m, k, v) == [j \in (DOMAIN m) \cup {k} |-> IF j = k THEN v ELSE m[j]]
AtomicDelete(m, k) == [j \in (DOMAIN m) \ {k} |-> m[j]]

\* The refinement mapping: the atomic map is the Store's map; a call has taken
\* effect once its Get has checked the key or its Set or Delete has written.
aMap == store
aPc == [p \in Procs |->
          CASE pc[p] = "idle" -> "idle"
            [] pc[p] \in {"call", "lock_wait", "get_check", "set_write", "delete_write"} -> "invoked"
            [] pc[p] \in {"get_read", "runlock", "unlock", "ret"} -> "linearized"
            [] OTHER -> "returned"]
aRes == [p \in Procs |->
          CASE pc[p] = "get_read" -> AtomicGet(store, req[p].key)
            [] pc[p] \in {"runlock", "unlock", "ret", "done"} -> storeRes[p]
            [] OTHER -> NoStoreRes]
aReq == [p \in Procs |-> IF pc[p] = "idle" THEN NoReq ELSE req[p]]
aVars == <<aMap, aPc, aRes, aReq>>

AtomicInvoke(p) ==
    /\ aPc[p] = "idle" /\ aPc' = [aPc EXCEPT ![p] = "invoked"]
    /\ aReq'[p].op \in {"Get", "Set", "Delete"}
    /\ \A q \in Procs \ {p} : aReq'[q] = aReq[q]
    /\ aMap' = aMap /\ aRes' = aRes
AtomicStep(p) ==
    /\ aPc[p] = "invoked" /\ aPc' = [aPc EXCEPT ![p] = "linearized"]
    /\ aReq' = aReq
    /\ aMap' = CASE aReq[p].op = "Set" -> AtomicSet(aMap, aReq[p].key, aReq[p].value)
                 [] aReq[p].op = "Delete" -> AtomicDelete(aMap, aReq[p].key)
                 [] OTHER -> aMap
    /\ aRes' = [aRes EXCEPT ![p] = IF aReq[p].op = "Get"
                                   THEN AtomicGet(aMap, aReq[p].key)
                                   ELSE [value |-> "", err |-> NoError]]
AtomicReturn(p) ==
    /\ aPc[p] = "linearized" /\ aPc' = [aPc EXCEPT ![p] = "returned"]
    /\ aReq' = aReq /\ aMap' = aMap /\ aRes' = aRes
AtomicReset(p) ==
    /\ aPc[p] = "returned" /\ aPc' = [aPc EXCEPT ![p] = "idle"]
    /\ aReq' = [aReq EXCEPT ![p] = NoReq]
    /\ aMap' = aMap /\ aRes' = [aRes EXCEPT ![p] = NoStoreRes]
AtomicNext ==
    \E p \in Procs : AtomicInvoke(p) \/ AtomicStep(p) \/ AtomicReturn(p) \/ AtomicReset(p)

\* C30: the concurrent InMemoryStore refines a sequential map: every step of
\* the Store is, under the mapping above, a step of the atomic map or leaves
\* it unchanged, so each call takes effect at one instant between its
\* invocation and its return, in an order that respects real time, and its
\* result and the mapping are those of the atomic map.
C30_Linearizable ==
    /\ aMap = EmptyMap /\ \A p \in Procs : aPc[p] = "idle"
    /\ [][AtomicNext]_aVars

\* A Get that was invoked before a write of its key took effect has read after
\* it and returned its value: the two calls overlapped and the Set comes first.
C30_Witness ==
    \E p \in Procs :
        /\ Returned(p, "Get") /\ obs[p] # started[p]
        /\ Last(obs[p]).op = "Set"
        /\ storeRes[p] = [value |-> Last(obs[p]).value, err |-> NoError]

\* C31: every operation of the Store releases the lock it took on every return
\* path, the not-found return of Get included: whenever no call is between its
\* lock request and its unlock the lock is free (no writer, none waiting, no
\* reader), a call that has left the Store holds nothing, and the number of
\* read locks held equals the number of Gets inside their critical section.
C31_LockReleased ==
    /\ (\A p \in Procs : pc[p] \notin (InStore \ {"call"})) => mutex = FreeMutex
    /\ \A p \in Procs :
          pc[p] \in {"idle", "call", "ret", "done"}
          => (p \notin mutex.readers /\ mutex.writer # p /\ mutex.pending # p)
    /\ Cardinality(mutex.readers) = Cardinality(ReaderCS)

\* A Get that found its key absent has left the Store after a Set returned,
\* nothing is in progress and the lock is free.
C31_Witness ==
    /\ \A p \in Procs : pc[p] \in {"idle", "ret", "done"}
    /\ mutex = FreeMutex
    /\ \E p \in Procs : /\ pc[p] \in {"ret", "done"} /\ req[p].op = "Get"
                        /\ storeRes[p].err = NewError("key not found")
    /\ setDone # {}

\* The request of p answers with a transport error in this step.
EndsInTransportError(p) ==
    pc[p] # "done" /\ pc'[p] = "done" /\ result'[p].err # NilStatus
\* A step of a Get or Health request of p.
ReadOnlyStep(p) ==
    pc'[p] # pc[p] /\ pc'[p] # "idle" /\ req'[p].op \in {"Get", "Health"}

\* C32: the server's Get, its Health and every request it answers with a
\* transport error leave the Store's mapping as it was: no step of a Get or a
\* Health changes the mapping, a request answered with a transport error has
\* never called into the Store, and a step that changes the mapping is the
\* write of a Set or a Delete with a non-empty key.
C32_Frame ==
    [][/\ store' # store =>
             \E p \in Procs : /\ pc[p] \in {"set_write", "delete_write"} /\ pc'[p] = "unlock"
                              /\ req[p].op \in {"Set", "Delete"} /\ req[p].key # ""
       /\ \A p \in Procs :
             EndsInTransportError(p) =>
                 /\ ~invoked[p] /\ storeRes[p] = NoStoreRes
                 /\ store' = store /\ log' = log
       /\ \A p \in Procs : ReadOnlyStep(p) => (store' = store /\ log' = log)]_vars

\* A Set with an empty key has been answered InvalidArgument and a Get has
\* been answered, and the map still holds what an earlier Set wrote.
C32_Witness ==
    \E p, q \in Procs :
        /\ Done(p, "Set") /\ req[p].key = "" /\ result[p] = InvalidKeyResult
        /\ Done(q, "Get") /\ result[q] = Found("x")
        /\ store = MapSet(EmptyMap, req[q].key, "x")
        /\ log[req[q].key] = <<SetEvent("x")>>

\* A request of p to one of the three /v1 routes is being served or answered.
V1Request(p) ==
    /\ hpc[p] # "idle" /\ hreq[p].via = "http"
    /\ hreq[p].op \in {"GetValueByKey", "UpdateValue", "DeleteValue"}
\* The middleware has answered the request of p itself: 401, no handler, no
\* client call, nothing sent to the server.
Rejected(p) ==
    /\ hpc[p] = "responded"
    /\ hres[p] = JSON(StatusUnauthorized, ErrorResponse(<<"Invalid API key">>))
    /\ clientCalls[p] = 0 /\ cres[p] = NoClientRes /\ rpc[p] = NoResult
    /\ pc[p] = "idle" /\ ~invoked[p]
\* GET /health is answered 200 with no client call, whatever the header.
HealthAnswered(p) ==
    Responded(p, "health") =>
        /\ hres[p] = String(StatusOK, <<"I am alive in ", config.Environment>>)
        /\ clientCalls[p] = 0 /\ pc[p] = "idle"

\* C33 as claimed: a /v1 request is handled only when it carries an x-api-key
\* header whose value is the configured API key; every other /v1 request is
\* answered 401 with no client call and nothing sent to the server, and
\* /health is answered 200 without any key.
C33_Original ==
    \A p \in Procs :
        /\ V1Request(p) =>
              IF header[p].present /\ header[p].value = config.APIKey
              THEN hres[p].status # StatusUnauthorized
              ELSE Rejected(p)
        /\ HealthAnswered(p)

\* C33, the part that holds: a /v1 request is handled only when what
\* Header.Get reads for x-api-key (the empty string for a request without the
\* header) is config.APIKey; every other /v1 request is answered 401 with no
\* client call and nothing sent to the server, and /health is answered 200
\* without any key.
C33_HeaderGetMatches ==
    \A p \in Procs :
        /\ V1Request(p) =>
              IF HeaderGet(header[p]) = config.APIKey
              THEN hres[p].status # StatusUnauthorized
              ELSE Rejected(p)
        /\ HealthAnswered(p)

\* With an API key configured, a request without the header and a request with
\* another key have both been answered 401 while the store holds what an
\* authorized PUT wrote.
C33_Witness ==
    /\ config.APIKey = "my-secret-key"
    /\ store = MapSet(EmptyMap, "a", "x")
    /\ \E p, q \in Procs :
          /\ V1Request(p) /\ Rejected(p) /\ header[p] = AbsentHeader
          /\ V1Request(q) /\ Rejected(q) /\ header[q] = PresentHeader("other-key")

\* A /v1 request of p with a non-empty key that passed the middleware has been
\* answered.
Answered(p, op) ==
    /\ Responded(p, op) /\ hreq[p].bodyOk /\ hreq[p].key # ""
    /\ HeaderGet(header[p]) = config.APIKey
\* The map holds for every key what the last write of the key left.
StoreIsLastWrite ==
    \A k \in Keys :
        IF log[k] # <<>> /\ Last(log[k]).op = "Set"
        THEN MapHas(store, k) /\ MapGet(store, k) = Last(log[k]).value
        ELSE ~MapHas(store, k)

\* C34: through handler, client, server and InMemoryStore, for an authorized
\* request with a non-empty key k: GET /v1/values/k answers 200 with the value
\* of the last PUT of k when k was in the store at the moment the Get read it
\* and 404 "Key not found" otherwise, PUT answers 200 with the pair it wrote
\* once the value is in the history of k, and DELETE answers 204 whether or
\* not k was in the store.  (obs[p] is what the Get of p read; the server
\* keeps it until it drops its record of the request.)
C34_EndToEnd ==
    /\ StoreIsLastWrite
    /\ \A p \in Procs :
          /\ (Answered(p, "GetValueByKey") /\ pc[p] = "done") =>
                hres[p] = IF obs[p] # <<>> /\ Last(obs[p]).op = "Set"
                          THEN JSON(StatusOK, KeyValue(hreq[p].key, Last(obs[p]).value))
                          ELSE JSON(StatusNotFound, ErrorResponse(<<"Key not found">>))
          /\ Answered(p, "UpdateValue") =>
                /\ hres[p] = JSON(StatusOK, KeyValue(hreq[p].key, hreq[p].value))
                /\ hreq[p].key \in setDone
          /\ Answered(p, "DeleteValue") =>
                /\ hres[p] = NoContent(StatusNoContent)
                /\ log[hreq[p].key] # <<>>

\* A DELETE of a key that was never set has been answered, then a PUT of the
\* key and a GET of it have been answered 200, the GET with the value put.
C34_Witness ==
    \E p, q \in Procs :
        /\ log["a"] = <<DeleteEvent, SetEvent("x")>>
        /\ Answered(p, "UpdateValue") /\ hres[p] = JSON(StatusOK, KeyValue("a", "x"))
        /\ Answered(q, "GetValueByKey") /\ hres[q] = JSON(StatusOK, KeyValue("a", "x"))
        /\ pc[q] = "done" /\ obs[q] = log["a"]

=============================================================================
